---- MODULE Spec2Model ----
(***************************************************************************)
(* Site Plan Tool: the signed-URL token scheme and access gate of          *)
(* server.js, the placement upload of server.js / hubspot-client.js, and   *)
(* the annotation session of public/app.js.                                *)
(*                                                                         *)
(* JavaScript strings are sequences of one-character strings.  An optional *)
(* value (a query parameter, an environment variable) is a record          *)
(* [def, str]: def = FALSE is JavaScript's undefined.                      *)
(***************************************************************************)
EXTENDS Integers, Sequences, FiniteSets, Bags, TLC

(***************************************************************************)
(* Bounds of the model.                                                    *)
(***************************************************************************)
MaxMinted == 1
MaxTicks == 2
MaxPath == 3
MaxInFlight == 2

(***************************************************************************)
(* Strings, bytes and the encodings used by the token scheme.              *)
(***************************************************************************)
Undefined == [def |-> FALSE, str |-> <<>>]

Str(s) == [def |-> TRUE, str |-> s]

\* Mutant of Falsy: only undefined counts as absent.
Falsy_UndefinedOnly(v) == ~v.def

\* !v of JavaScript for an optional string: undefined and "" are falsy.
Falsy(v) == ~v.def \/ v.str = <<>>

\* The printable ASCII characters, code 32 (space) to code 126 (~); the
\* grave accent (code 96) is written "GRAVE".
Printable ==
  << " ", "!", "\"", "#", "$", "%", "&", "'", "(", ")", "*", "+", ",", "-", ".", "/",
     "0", "1", "2", "3", "4", "5", "6", "7", "8", "9", ":", ";", "<", "=", ">", "?",
     "@", "A", "B", "C", "D", "E", "F", "G", "H", "I", "J", "K", "L", "M", "N", "O",
     "P", "Q", "R", "S", "T", "U", "V", "W", "X", "Y", "Z", "[", "\\", "]", "^", "_",
     "GRAVE", "a", "b", "c", "d", "e", "f", "g", "h", "i", "j", "k", "l", "m", "n", "o",
     "p", "q", "r", "s", "t", "u", "v", "w", "x", "y", "z", "{", "|", "}", "~" >>

\* Characters outside printable ASCII.  A string is a sequence of UTF-16
\* code units, as in JavaScript.  The white space that can stand in a token
\* payload has a name of its own: "TAB" (U+0009), "LF" (U+000A), "VT"
\* (U+000B), "FF" (U+000C), "CR" (U+000D), "NBSP" (U+00A0) and "BOM"
\* (U+FEFF); "WS" is any other white space or line terminator of JavaScript.
\* "LOW:d" is a code unit above U+00FF whose low byte is the code of the
\* hexadecimal digit d (U+0130 is "LOW:0", U+0141 "LOW:A", U+0161 "LOW:a"),
\* and "OTHER" any other code unit (a control character, U+FFFD, a letter
\* outside ASCII, half of a surrogate pair, ...).
NamedChars == { "TAB", "LF", "VT", "FF", "CR", "NBSP", "BOM" }

Chars == {Printable[i] : i \in 1..Len(Printable)}

\* The codes of the hexadecimal digits: 0-9, A-F, a-f.
HexDigitBytes == (48..57) \cup (65..70) \cup (97..102)

HexDigitChars == {Printable[b - 31] : b \in HexDigitBytes}

LowByteChar(d) == "LOW:" \o d

LowByteChars == {LowByteChar(d) : d \in HexDigitChars}

\* The hexadecimal digit whose code is the low byte of the code unit.
LowDigit == [c \in LowByteChars |-> CHOOSE d \in HexDigitChars : LowByteChar(d) = c]

AllChars == Chars \cup NamedChars \cup { "WS", "OTHER" } \cup LowByteChars

CharCode == [c \in Chars |-> 31 + (CHOOSE i \in 1..Len(Printable) : Printable[i] = c)]

\* The UTF-8 encoding of one character; "LOW:d" is encoded as the first of
\* its code units, U+0100 + code of d.
CharBytes(c) ==
  CASE c \in Chars -> << CharCode[c] >>
    [] c \in LowByteChars ->
         << 192 + ((256 + CharCode[LowDigit[c]]) \div 64),
            128 + ((256 + CharCode[LowDigit[c]]) % 64) >>
    [] c = "TAB" -> << 9 >>
    [] c = "LF" -> << 10 >>
    [] c = "VT" -> << 11 >>
    [] c = "FF" -> << 12 >>
    [] c = "CR" -> << 13 >>
    [] c = "NBSP" -> << 194, 160 >>
    [] c = "BOM" -> << 239, 187, 191 >>

RECURSIVE Utf8Bytes(_)
\* Buffer.from(str): the UTF-8 bytes of the string, one byte per character
\* for ASCII text.
Utf8Bytes(s) ==
  IF \A i \in 1..Len(s) : s[i] \in Chars
    THEN [i \in 1..Len(s) |-> CharCode[s[i]]]
    ELSE LET k == CHOOSE i \in 1..Len(s) : s[i] \notin Chars /\ \A j \in 1..(i - 1) : s[j] \in Chars
         IN [i \in 1..(k - 1) |-> CharCode[s[i]]] \o CharBytes(s[k])
              \o Utf8Bytes(SubSeq(s, k + 1, Len(s)))

\* Code points of the white space and line terminators of JavaScript other
\* than the named ones and the space.
OtherWhiteSpace == { 5760, 8232, 8233, 8239, 8287, 12288 } \cup (8192..8202)

\* The character of the code unit u, neither printable ASCII nor white space.
UnitChar(u) ==
  IF (u % 256) \in HexDigitBytes /\ u > 255
    THEN LowByteChar(Printable[(u % 256) - 31])
    ELSE "OTHER"

\* The character with code point cp, at most U+FFFF.
CharOf(cp) ==
  CASE cp >= 32 /\ cp <= 126 -> Printable[cp - 31]
    [] cp = 9 -> "TAB"
    [] cp = 10 -> "LF"
    [] cp = 11 -> "VT"
    [] cp = 12 -> "FF"
    [] cp = 13 -> "CR"
    [] cp = 160 -> "NBSP"
    [] cp = 65279 -> "BOM"
    [] cp \in OtherWhiteSpace -> "WS"
    [] OTHER -> UnitChar(cp)

\* The code units of the code point cp: one up to U+FFFF, above it the two
\* halves of the surrogate pair.
CharsOf(cp) ==
  IF cp < 65536 THEN << CharOf(cp) >>
  ELSE << UnitChar(55296 + ((cp - 65536) \div 1024)),
          UnitChar(56320 + ((cp - 65536) % 1024)) >>

\* Number of continuation bytes that follow the lead byte x of a UTF-8
\* sequence; -1 when x cannot start a sequence.
Utf8Needed(x) ==
  CASE x >= 194 /\ x <= 223 -> 1
    [] x >= 224 /\ x <= 239 -> 2
    [] x >= 240 /\ x <= 244 -> 3
    [] OTHER -> -1

\* The byte y may stand at place j (1, 2, 3) after the lead byte x: a
\* continuation byte, in the narrower range that excludes overlong forms,
\* surrogates and code points above U+10FFFF at the first place.
Utf8Continues(x, j, y) ==
  /\ y >= (IF j = 1 /\ x = 224 THEN 160 ELSE IF j = 1 /\ x = 240 THEN 144 ELSE 128)
  /\ y <= (IF j = 1 /\ x = 237 THEN 159 ELSE IF j = 1 /\ x = 244 THEN 143 ELSE 191)

\* The sequence that starts with the non-ASCII byte b[k]: the code units it
\* gives and the number of bytes it takes.  A byte that cannot start a
\* sequence, and a sequence that is cut short, give one U+FFFD ("OTHER");
\* the byte that cuts a sequence short is not taken.
Utf8Sequence(b, k) ==
  LET x == b[k]
      needed == Utf8Needed(x)
      good == { n \in 0..(IF needed < 0 THEN 0 ELSE needed) :
                  \A j \in 1..n : k + j <= Len(b) /\ Utf8Continues(x, j, b[k + j]) }
      taken == CHOOSE n \in good : \A m \in good : m <= n
      lead == IF needed = 1 THEN x % 32 ELSE IF needed = 2 THEN x % 16 ELSE x % 8
      cp == CASE needed = 1 -> lead * 64 + (b[k + 1] % 64)
              [] needed = 2 -> (lead * 64 + (b[k + 1] % 64)) * 64 + (b[k + 2] % 64)
              [] OTHER -> ((lead * 64 + (b[k + 1] % 64)) * 64 + (b[k + 2] % 64)) * 64
                            + (b[k + 3] % 64)
  IN IF needed < 0 \/ taken < needed
       THEN [chars |-> << "OTHER" >>, len |-> 1 + taken]
       ELSE [chars |-> CharsOf(cp), len |-> 1 + needed]

RECURSIVE Utf8String(_)
\* buf.toString('utf8'): the code units of each UTF-8 sequence (one, or two
\* for a code point above U+FFFF), U+FFFD for bytes that are not valid
\* UTF-8; ASCII bytes give one character each.
Utf8String(b) ==
  IF \A i \in 1..Len(b) : b[i] <= 127
    THEN [i \in 1..Len(b) |-> CharOf(b[i])]
    ELSE LET k == CHOOSE i \in 1..Len(b) : b[i] > 127 /\ \A j \in 1..(i - 1) : b[j] <= 127
             seq == Utf8Sequence(b, k)
         IN [i \in 1..(k - 1) |-> CharOf(b[i])] \o seq.chars
              \o Utf8String(SubSeq(b, k + seq.len, Len(b)))

HexDigits == << "0", "1", "2", "3", "4", "5", "6", "7", "8", "9", "a", "b", "c", "d", "e", "f" >>

\* Value of a character as the hexadecimal decoder reads it: the decoder
\* looks only at the low byte of the code unit.  The value of a hexadecimal
\* digit (either case), -1 for any other byte.
HexVal ==
  [c \in AllChars |->
     LET d == IF c \in LowByteChars THEN LowDigit[c] ELSE c
     IN IF \E i \in 1..16 : HexDigits[i] = d
          THEN (CHOOSE i \in 1..16 : HexDigits[i] = d) - 1
          ELSE IF d \in { "A", "B", "C", "D", "E", "F" }
            THEN CharCode[d] - 55
            ELSE -1]

RECURSIVE HexEncode(_)
\* digest('hex'): two lower-case hexadecimal digits per byte.
HexEncode(b) ==
  IF b = << >> THEN << >>
  ELSE << HexDigits[(b[1] \div 16) + 1], HexDigits[(b[1] % 16) + 1] >> \o HexEncode(Tail(b))

RECURSIVE HexDecode(_)
\* Buffer.from(str, 'hex'): decodes pairs of code units, each read by its
\* low byte as a hexadecimal digit, and stops at the first pair that is not
\* two hexadecimal digits (a trailing single character is dropped).
HexDecode(s) ==
  IF Len(s) < 2 THEN << >>
  ELSE LET hi == HexVal[s[1]]
           lo == HexVal[s[2]]
       IN IF hi < 0 \/ lo < 0 THEN << >>
          ELSE << 16 * hi + lo >> \o HexDecode(SubSeq(s, 3, Len(s)))

\* The base64url alphabet, value 0 to 63.
B64Alphabet ==
  << "A", "B", "C", "D", "E", "F", "G", "H", "I", "J", "K", "L", "M", "N", "O", "P",
     "Q", "R", "S", "T", "U", "V", "W", "X", "Y", "Z", "a", "b", "c", "d", "e", "f",
     "g", "h", "i", "j", "k", "l", "m", "n", "o", "p", "q", "r", "s", "t", "u", "v",
     "w", "x", "y", "z", "0", "1", "2", "3", "4", "5", "6", "7", "8", "9", "-", "_" >>

B64Val == [c \in {B64Alphabet[i] : i \in 1..64} |-> (CHOOSE i \in 1..64 : B64Alphabet[i] = c) - 1]

RECURSIVE Base64UrlEncode(_)
\* buf.toString('base64url'): three bytes give four characters, no padding;
\* a final group of one or two bytes gives two or three characters.
Base64UrlEncode(b) ==
  CASE Len(b) = 0 -> << >>
    [] Len(b) = 1 ->
         << B64Alphabet[(b[1] \div 4) + 1], B64Alphabet[((b[1] % 4) * 16) + 1] >>
    [] Len(b) = 2 ->
         << B64Alphabet[(b[1] \div 4) + 1],
            B64Alphabet[((b[1] % 4) * 16 + (b[2] \div 16)) + 1],
            B64Alphabet[((b[2] % 16) * 4) + 1] >>
    [] OTHER ->
         << B64Alphabet[(b[1] \div 4) + 1],
            B64Alphabet[((b[1] % 4) * 16 + (b[2] \div 16)) + 1],
            B64Alphabet[((b[2] % 16) * 4 + (b[3] \div 64)) + 1],
            B64Alphabet[(b[3] % 64) + 1] >> \o Base64UrlEncode(SubSeq(b, 4, Len(b)))

RECURSIVE Base64UrlDecode(_)
\* Buffer.from(str, 'base64url') for a string over the base64url alphabet:
\* four characters give three bytes; a final group of two or three
\* characters gives one or two bytes, a final single character none.
Base64UrlDecode(s) ==
  CASE Len(s) <= 1 -> << >>
    [] Len(s) = 2 -> << B64Val[s[1]] * 4 + (B64Val[s[2]] \div 16) >>
    [] Len(s) = 3 ->
         << B64Val[s[1]] * 4 + (B64Val[s[2]] \div 16),
            (B64Val[s[2]] % 16) * 16 + (B64Val[s[3]] \div 4) >>
    [] OTHER ->
         << B64Val[s[1]] * 4 + (B64Val[s[2]] \div 16),
            (B64Val[s[2]] % 16) * 16 + (B64Val[s[3]] \div 4),
            (B64Val[s[3]] % 4) * 64 + B64Val[s[4]] >> \o Base64UrlDecode(SubSeq(s, 5, Len(s)))

RECURSIVE NumToStr(_)
\* `${n}` for a non-negative integer: its decimal digits.
NumToStr(n) ==
  IF n < 10 THEN << HexDigits[n + 1] >>
  ELSE NumToStr(n \div 10) \o << HexDigits[(n % 10) + 1] >>

IsDigit(c) == c \in { "0", "1", "2", "3", "4", "5", "6", "7", "8", "9" }

NaN == [nan |-> TRUE, val |-> 0]

RECURSIVE DigitsValue(_, _)
\* Value of the longest prefix of decimal digits of s, after acc.
DigitsValue(s, acc) ==
  IF s = << >> \/ ~IsDigit(s[1]) THEN acc
  ELSE DigitsValue(Tail(s), 10 * acc + HexVal[s[1]])

\* The characters parseInt skips before the number: the white space and
\* the line terminators of JavaScript.
WhiteSpace == { " ", "TAB", "LF", "VT", "FF", "CR", "NBSP", "BOM", "WS" }

RECURSIVE SkipSpaces(_)
\* s without its leading white space.
SkipSpaces(s) == IF s # << >> /\ s[1] \in WhiteSpace THEN SkipSpaces(Tail(s)) ELSE s

\* parseInt(s, 10): leading white space is skipped, an optional sign is
\* read, then the longest prefix of decimal digits; NaN when there is none.
ParseInt(s) ==
  LET t == SkipSpaces(s)
      neg == t # << >> /\ t[1] = "-"
      u == IF t # << >> /\ t[1] \in { "-", "+" } THEN Tail(t) ELSE t
  IN IF u = << >> \/ ~IsDigit(u[1]) THEN NaN
     ELSE [nan |-> FALSE,
           val |-> IF neg THEN 0 - DigitsValue(u, 0) ELSE DigitsValue(u, 0)]

RECURSIVE Split(_, _)
\* s.split(sep) for a one-character separator: the fields between the
\* separators (always at least one field).
Split(s, sep) ==
  IF \A i \in 1..Len(s) : s[i] # sep THEN << s >>
  ELSE LET k == CHOOSE i \in 1..Len(s) : s[i] = sep /\ \A j \in 1..(i - 1) : s[j] # sep
       IN << SubSeq(s, 1, k - 1) >> \o Split(SubSeq(s, k + 1, Len(s)), sep)

(***************************************************************************)
(* Token Authority (server.js).                                            *)
(***************************************************************************)
\* Token expiry: 7 days in milliseconds.
TOKEN_EXPIRY_MS == 7 * 24 * 60 * 60 * 1000

\* `${v}` for an optional string.
TemplateStr(v) == IF v.def THEN v.str ELSE << "u", "n", "d", "e", "f", "i", "n", "e", "d" >>

\* The 32 bytes of a digest of the message m.  The keyed hash is modelled as
\* collision-free on the messages of the model: the message bytes are laid
\* out over the 32 positions (bytes beyond the 32nd are added in, modulo 256),
\* so that distinct messages of at most 32 bytes have distinct digests.
DigestBytes(m) ==
  LET RECURSIVE Fold(_, _)
      Fold(i, j) == IF j > Len(m) THEN 0 ELSE m[j] + Fold(i, j + 32)
  IN [i \in 1..32 |-> Fold(i, i) % 256]

\* crypto.createHmac('sha256', secret).update(data).digest('hex'): 64
\* hexadecimal digits determined by the secret and the data.
HmacSha256Hex(secret, data) ==
  HexEncode(DigestBytes(Utf8Bytes(secret) \o << 0 >> \o Utf8Bytes(data)))

\* Mutant of SignedData: the installation id is left out of the signed string.
SignedData_NoId(installationId, expiry) == NumToStr(expiry)

\* The string that is signed: `${installationId}:${expiry}`.
SignedData(installationId, expiry) == TemplateStr(installationId) \o << ":" >> \o NumToStr(expiry)

\* Mutant of generateSignedToken: the expiry is the time of signing.
generateSignedToken_ExpiresNow(installationId, secret, now) ==
  IF Falsy(secret) THEN [threw |-> TRUE, token |-> <<>>]
  ELSE
    LET expiry == now
        signature == HmacSha256Hex(secret.str, SignedData(installationId, expiry))
    IN [threw |-> FALSE,
        token |-> Base64UrlEncode(Utf8Bytes(NumToStr(expiry) \o << ":" >> \o signature))]

\* generateSignedToken(installationId, secret) called at time now.  threw is
\* TRUE when no secret is given.
generateSignedToken(installationId, secret, now) ==
  IF Falsy(secret) THEN [threw |-> TRUE, token |-> <<>>]
  ELSE
    LET expiry == now + TOKEN_EXPIRY_MS
        signature == HmacSha256Hex(secret.str, SignedData(installationId, expiry))
    IN [threw |-> FALSE,
        token |-> Base64UrlEncode(Utf8Bytes(NumToStr(expiry) \o << ":" >> \o signature))]

NoError == "none"

\* Mutant of IsExpired: no token is ever taken as expired.
IsExpired_Never(now, expiry) == FALSE

\* Mutant of IsExpired: a token is taken as expired at its expiry instant.
IsExpired_Inclusive(now, expiry) == now >= expiry

\* now > expiry (Date.now() > expiry).
IsExpired(now, expiry) == now > expiry

\* Mutant of timingSafeEqual: buffers of different lengths compare unequal
\* instead of throwing.
timingSafeEqual_NoThrow(a, b) == [threw |-> FALSE, equal |-> a = b]

\* crypto.timingSafeEqual(a, b): throws a RangeError when the buffers differ
\* in length, otherwise tells whether they are equal.
timingSafeEqual(a, b) == [threw |-> Len(a) # Len(b), equal |-> a = b]

\* What the try block of verifySignedToken does: it returns a result, or an
\* exception is thrown (threw).
Returned(valid, error) == [threw |-> FALSE, valid |-> valid, error |-> error]

Thrown == [threw |-> TRUE, valid |-> FALSE, error |-> "exception"]

\* The outcome of the signature check, given what timingSafeEqual did.
signatureOutcome(cmp) ==
  IF cmp.threw THEN Thrown
  ELSE IF ~cmp.equal THEN Returned(FALSE, "Invalid token signature")
  ELSE Returned(TRUE, NoError)

\* The try block of verifySignedToken, from the signature check on: expiry
\* is the number parseInt gave, providedSignature the second field of the
\* payload (Undefined when the payload has no ':').
verifySignature(installationId, expiry, providedSignature, secret) ==
  IF ~providedSignature.def
    \* Buffer.from(undefined, 'hex') throws a TypeError
    THEN Thrown
  ELSE
    signatureOutcome(
      timingSafeEqual(
        HexDecode(providedSignature.str),
        HexDecode(HmacSha256Hex(secret.str, SignedData(installationId, expiry)))))

\* The try block of verifySignedToken, from the expiry check on: expiry is
\* what parseInt(expiryStr, 10) gave.
verifyExpiry(installationId, expiry, providedSignature, secret, now) ==
  IF expiry.nan \/ IsExpired(now, expiry.val)
    THEN Returned(FALSE, "Token has expired")
    ELSE verifySignature(installationId, expiry.val, providedSignature, secret)

\* The try block of verifySignedToken, once the token is decoded and split
\* at ':' into fields: const [expiryStr, providedSignature] = fields.
verifyFields(installationId, fields, secret, now) ==
  verifyExpiry(installationId, ParseInt(fields[1]),
               IF Len(fields) >= 2 THEN Str(fields[2]) ELSE Undefined, secret, now)

\* The try block of verifySignedToken(installationId, token, secret) called
\* at time now, for a token and a secret that are not falsy.
verifyTry(installationId, token, secret, now) ==
  verifyFields(installationId, Split(Utf8String(Base64UrlDecode(token.str)), ":"), secret, now)

\* What leaves verifySignedToken when its try block has no catch: the
\* outcome r of the block as it is.
Uncaught(r) == [valid |-> r.valid, error |-> r.error]

\* The catch of verifySignedToken, applied to the outcome r of the try
\* block: every exception gives 'Invalid token format'.
Caught(r) ==
  IF r.threw THEN [valid |-> FALSE, error |-> "Invalid token format"]
  ELSE [valid |-> r.valid, error |-> r.error]

\* Mutant of verifySignedToken: the try block has no catch, an exception
\* leaves the function without a result.
verifySignedToken_NoCatch(installationId, token, secret, now) ==
  IF Falsy(secret) THEN [valid |-> TRUE, error |-> NoError]
  ELSE IF Falsy(token) THEN [valid |-> FALSE, error |-> "Missing authentication token"]
  ELSE Uncaught(verifyTry(installationId, token, secret, now))

\* verifySignedToken(installationId, token, secret) called at time now.
\* The result is { valid, error? }; error is NoError when the property is
\* absent.
verifySignedToken(installationId, token, secret, now) ==
  IF Falsy(secret) THEN [valid |-> TRUE, error |-> NoError]
  ELSE IF Falsy(token) THEN [valid |-> FALSE, error |-> "Missing authentication token"]
  ELSE Caught(verifyTry(installationId, token, secret, now))

(***************************************************************************)
(* State.                                                                  *)
(***************************************************************************)
VARIABLES
  \* server (server.js, hubspot-client.js)
  secret,        \* SITE_PLAN_SECRET
  hubspotToken,  \* HUBSPOT_ACCESS_TOKEN is set
  mapsKey,       \* GOOGLE_MAPS_API_KEY is set
  now,           \* Date.now()
  ticks,         \* number of clock steps taken
  minted,        \* tokens handed out: [id, t0, token]
  req,           \* the request being served
  srvPc,         \* position of the request in its route
  authResult,    \* what verifySignedToken returned for the request
  res,           \* the response sent for the request
  calls,         \* external calls made for the request, in order
  fileId,        \* fileId returned by the store step
  \* client (public/app.js)
  currentTool,
  iduPlaced,
  oduPlaced,
  linePoints,
  objects,       \* canvas.getObjects(): the bag of markers, path points, path segments
  saveDisabled,  \* saveBtn.disabled
  modalShown,    \* successModal is not hidden
  inFlight,      \* savePlacement calls suspended at an await
  lastEvent      \* the handler that ran last

serverVars == << secret, hubspotToken, mapsKey, now, ticks, minted, req, srvPc,
                 authResult, res, calls, fileId >>

clientVars == << currentTool, iduPlaced, oduPlaced, linePoints, objects,
                 saveDisabled, modalShown, inFlight, lastEvent >>

vars == << serverVars, clientVars >>

(***************************************************************************)
(* Server: requests, the access gate and the routes (server.js).           *)
(***************************************************************************)
Ids == { << "A" >>, << "B" >> }

Secrets == { Undefined, Str(<<>>), Str(<< "k", "1" >>) }

FileIds == { "f1", "f2" }

\* The fileId of an upload answer whose JSON has no id: undefined.
UndefinedFileId == "undefined"

\* The value of fileId as res.json writes it: an undefined field is left out.
JsonFileId(f) == IF f = UndefinedFileId THEN "" ELSE f

\* ?id= of a request: absent, or an installation id.
QueryIds == { Undefined } \cup { Str(i) : i \in Ids }

\* Mutant of GatedRoutes: /api/geocode is served without requireAuth.
GatedRoutes_NoGeocode == { "installation", "placement" }

\* The routes that have requireAuth as middleware.
GatedRoutes == { "installation", "placement", "geocode" }

Routes == GatedRoutes \cup { "generate-url" }

NoReq == [route |-> "none", pathId |-> Undefined, queryId |-> Undefined,
          token |-> Undefined, hasFile |-> FALSE, hasAddress |-> FALSE]

NoResult == [valid |-> FALSE, error |-> "not verified"]

NoRes == [status |-> 0, error |-> "", message |-> "", fileId |-> "", token |-> <<>>]

Reply(status, error, message) ==
  [status |-> status, error |-> error, message |-> message, fileId |-> "", token |-> <<>>]

\* A token value that is no encoding of an 'expiry:signature' payload.
GarbageToken == << "x", "y", "z" >>

\* A token for installation A signed at time 1000 with a key that is not the
\* server's.
ForgedToken == generateSignedToken(Str(<< "A" >>), Str(<< "k", "2" >>), 1000).token

\* The token that encodes the payload p.
PayloadToken(p) == Base64UrlEncode(Utf8Bytes(p))

\* An expiry later than every time of the model.
FarExpiry == << "2", "0", "0", "0", "0", "0", "0", "0", "0", "0" >>

\* Malformed tokens.  Payload without ':' (an expiry only).
NoSeparatorToken == PayloadToken(FarExpiry)

\* Payload 'abc:00ff': the expiry part is not a number.
NonNumericExpiryToken == PayloadToken(<< "a", "b", "c", ":", "0", "0", "f", "f" >>)

\* Payload '<expiry>:': the signature part is empty.
EmptySignatureToken == PayloadToken(FarExpiry \o << ":" >>)

\* Payload '<expiry>:zzzz': the signature part is not hexadecimal.
NonHexSignatureToken == PayloadToken(FarExpiry \o << ":", "z", "z", "z", "z" >>)

\* Payload '<expiry>:00ff': a hexadecimal signature of the wrong length.
ShortSignatureToken == PayloadToken(FarExpiry \o << ":", "0", "0", "f", "f" >>)

\* Payload '500:00ff': an expiry earlier than every time of the model.
PastExpiryToken == PayloadToken(<< "5", "0", "0", ":", "0", "0", "f", "f" >>)

MalformedTokens ==
  { NoSeparatorToken, NonNumericExpiryToken, EmptySignatureToken, NonHexSignatureToken,
    ShortSignatureToken, PastExpiryToken }

\* The payload 'expiry:signature' a token encodes.
PayloadOf(token) == Utf8String(Base64UrlDecode(token))

\* Tokens made from a token the server handed out by altering its payload
\* 'expiry:signature': a character after the expiry digits, a third ':'
\* field, characters after the signature, white space (a tab, a no-break
\* space) before the expiry digits, the first digit d of the signature
\* replaced by the character U+0100 + code of d.
AlteredTokens(token) ==
  LET payload == PayloadOf(token)
      fields == Split(payload, ":")
  IN { PayloadToken(fields[1] \o << "x", ":" >> \o fields[2]),
       PayloadToken(payload \o << ":", "x" >>),
       PayloadToken(payload \o << "z", "z" >>),
       PayloadToken(<< "TAB" >> \o payload),
       PayloadToken(<< "NBSP" >> \o payload),
       PayloadToken(fields[1] \o << ":", LowByteChar(fields[2][1]) >> \o Tail(fields[2])) }

\* The token values a request may carry: none, the empty string, a token
\* the server handed out, or one made elsewhere.
TokenValues ==
  { Undefined, Str(<<>>), Str(GarbageToken), Str(ForgedToken) }
    \cup { Str(t) : t \in MalformedTokens } \cup { Str(m.token) : m \in minted }

ServerInit ==
  /\ secret \in Secrets
  /\ hubspotToken \in BOOLEAN
  /\ mapsKey \in BOOLEAN
  /\ now = 1000
  /\ ticks = 0
  /\ minted = {}
  /\ req = NoReq
  /\ srvPc = "idle"
  /\ authResult = NoResult
  /\ res = NoRes
  /\ calls = << >>
  /\ fileId = ""

\* Time passes between two requests.
Tick(d) ==
  /\ srvPc = "idle"
  /\ ticks < MaxTicks
  /\ now < TOKEN_EXPIRY_MS
  /\ now' = now + d
  /\ ticks' = ticks + 1
  /\ UNCHANGED << secret, hubspotToken, mapsKey, minted, req, srvPc, authResult,
                  res, calls, fileId >>
  /\ UNCHANGED clientVars

\* A request arrives.  On the routes with :id the path parameter is a
\* non-empty string; /api/geocode has no path parameter.
ReceiveRequest(route, pathId, queryId, token, hasFile, hasAddress) ==
  /\ srvPc = "idle"
  /\ req' = [route |-> route, pathId |-> pathId, queryId |-> queryId,
             token |-> token, hasFile |-> hasFile, hasAddress |-> hasAddress]
  /\ srvPc' = IF route \in GatedRoutes THEN "gate" ELSE "handler"
  /\ UNCHANGED << secret, hubspotToken, mapsKey, now, ticks, minted, authResult, res,
                  calls, fileId >>
  /\ UNCHANGED clientVars

\* Mutant of AuthId: req.query.id || req.params.id
AuthId_QueryFirst(r) == IF ~Falsy(r.queryId) THEN r.queryId ELSE r.pathId

\* req.params.id || req.query.id
AuthId(r) == IF ~Falsy(r.pathId) THEN r.pathId ELSE r.queryId

\* Mutant of requireAuth: the rejection does not return, next() runs.
requireAuth_NoReturn ==
  /\ srvPc = "gate"
  /\ authResult' = verifySignedToken(AuthId(req), req.token, secret, now)
  /\ res' = IF ~authResult'.valid THEN Reply(403, "Access denied", authResult'.error) ELSE res
  /\ srvPc' = "handler"
  /\ UNCHANGED << secret, hubspotToken, mapsKey, now, ticks, minted, req, calls, fileId >>
  /\ UNCHANGED clientVars

\* requireAuth(req, res, next)
requireAuth ==
  /\ srvPc = "gate"
  /\ authResult' = verifySignedToken(AuthId(req), req.token, secret, now)
  /\ IF ~authResult'.valid
       THEN /\ res' = Reply(403, "Access denied", authResult'.error)
            /\ srvPc' = "done"
       ELSE /\ res' = res
            /\ srvPc' = "handler"
  /\ UNCHANGED << secret, hubspotToken, mapsKey, now, ticks, minted, req, calls, fileId >>
  /\ UNCHANGED clientVars

Call(op, id, fid) == [op |-> op, id |-> id, fileId |-> fid]

srvFrame == << secret, hubspotToken, mapsKey, now, ticks, minted, req, authResult >>

\* GET /api/installation/:id, up to the await of getInstallationById.
InstallationHandler ==
  /\ srvPc = "handler"
  /\ req.route = "installation"
  /\ IF ~hubspotToken
       THEN /\ res' = Reply(500, "HubSpot not configured", "")
            /\ srvPc' = "done"
            /\ calls' = calls
       ELSE /\ calls' = Append(calls, Call("getInstallationById", req.pathId.str, ""))
            /\ srvPc' = "fetch"
            /\ res' = res
  /\ UNCHANGED << srvFrame, fileId >>
  /\ UNCHANGED clientVars

\* getInstallationById settles: the record, or an error (404).
InstallationResolve(found) ==
  /\ srvPc = "fetch"
  /\ res' = IF found THEN Reply(200, "", "") ELSE Reply(404, "Installation not found", "")
  /\ srvPc' = "done"
  /\ UNCHANGED << srvFrame, calls, fileId >>
  /\ UNCHANGED clientVars

\* GET /api/geocode, up to the await of fetch(url).
GeocodeHandler ==
  /\ srvPc = "handler"
  /\ req.route = "geocode"
  /\ IF ~req.hasAddress
       THEN /\ res' = Reply(400, "Address is required", "")
            /\ srvPc' = "done"
            /\ calls' = calls
       ELSE IF ~mapsKey
         THEN /\ res' = Reply(500, "Google Maps API not configured", "")
              /\ srvPc' = "done"
              /\ calls' = calls
         ELSE /\ calls' = Append(calls, Call("geocode", << >>, ""))
              /\ srvPc' = "geocode"
              /\ res' = res
  /\ UNCHANGED << srvFrame, fileId >>
  /\ UNCHANGED clientVars

GeocodeOutcomes == { "ok", "zero_results", "network_error" }

\* The geocoding request settles.
GeocodeResolve(outcome) ==
  /\ srvPc = "geocode"
  /\ res' = CASE outcome = "ok" -> Reply(200, "", "")
              [] outcome = "zero_results" -> Reply(404, "Address not found", "")
              [] OTHER -> Reply(500, "Geocoding failed", "")
  /\ srvPc' = "done"
  /\ UNCHANGED << srvFrame, calls, fileId >>
  /\ UNCHANGED clientVars

\* Mutant of PlacementHandler: the image is looked for before the HubSpot
\* configuration.
PlacementHandler_FileFirst ==
  /\ srvPc = "handler"
  /\ req.route = "placement"
  /\ IF ~req.hasFile
       THEN /\ res' = Reply(400, "No image provided", "")
            /\ srvPc' = "done"
            /\ calls' = calls
       ELSE IF ~hubspotToken
         THEN /\ res' = Reply(500, "HubSpot not configured", "")
              /\ srvPc' = "done"
              /\ calls' = calls
         ELSE /\ calls' = Append(calls, Call("uploadFileToHubSpot", << >>, ""))
              /\ srvPc' = "store"
              /\ res' = res
  /\ UNCHANGED << srvFrame, fileId >>
  /\ UNCHANGED clientVars

\* POST /api/installation/:id/placement, after requireAuth and
\* upload.single('image'), up to the await of uploadFileToHubSpot.
PlacementHandler ==
  /\ srvPc = "handler"
  /\ req.route = "placement"
  /\ IF ~hubspotToken
       THEN /\ res' = Reply(500, "HubSpot not configured", "")
            /\ srvPc' = "done"
            /\ calls' = calls
       ELSE IF ~req.hasFile
         THEN /\ res' = Reply(400, "No image provided", "")
              /\ srvPc' = "done"
              /\ calls' = calls
         ELSE /\ calls' = Append(calls, Call("uploadFileToHubSpot", << >>, ""))
              /\ srvPc' = "store"
              /\ res' = res
  /\ UNCHANGED << srvFrame, fileId >>
  /\ UNCHANGED clientVars

RequestOk == [kind |-> "ok", message |-> ""]

\* The ways a HubSpot request that answers with JSON fails, with the message
\* of the Error the promise is rejected with: an answer with another status
\* (the message of its JSON body, or 'HTTP <status>: <body>' when the body has
\* none), an answer that cannot be used (not JSON, or without the expected
\* fields), a network error (with the message of the error, or without one).
RequestFailures ==
  { [kind |-> "http_error", message |-> "quota exceeded"],
    [kind |-> "http_error", message |-> "HTTP 401: {}"],
    [kind |-> "parse_error", message |-> "Parse error: Unexpected token"],
    [kind |-> "network_error", message |-> "socket hang up"],
    [kind |-> "network_error", message |-> ""] }

\* Outcomes of a HubSpot request that answers with JSON: a 200/201 answer,
\* or a failure.
RequestOutcomes == { RequestOk } \cup RequestFailures

\* The catch of the placement handler:
\* res.status(500).json({ error: error.message || 'Failed to save site plan' })
PlacementFailed(outcome) ==
  Reply(500, IF outcome.message = "" THEN "Failed to save site plan" ELSE outcome.message, "")

\* Mutant of StoreResolve: a rejected upload does not stop the handler, the
\* attach step runs without a file id.
StoreResolve_AttachAnyway(outcome, fid) ==
  /\ srvPc = "store"
  /\ fileId' = IF outcome.kind = "ok" THEN fid ELSE fileId
  /\ calls' = Append(calls, Call("createNote", req.pathId.str, fileId'))
  /\ srvPc' = "note"
  /\ res' = res
  /\ UNCHANGED srvFrame
  /\ UNCHANGED clientVars

\* uploadFileToHubSpot settles.  Resolved: the handler goes on to
\* attachFileToInstallation, which sends the note request.  Rejected: the
\* handler's catch answers 500.
StoreResolve(outcome, fid) ==
  /\ srvPc = "store"
  /\ IF outcome.kind = "ok"
       THEN /\ fileId' = fid
            /\ calls' = Append(calls, Call("createNote", req.pathId.str, fid))
            /\ srvPc' = "note"
            /\ res' = res
       ELSE /\ res' = PlacementFailed(outcome)
            /\ srvPc' = "done"
            /\ UNCHANGED << calls, fileId >>
  /\ UNCHANGED srvFrame
  /\ UNCHANGED clientVars

\* The note request of attachFileToInstallation settles.  200/201: the
\* association request is sent.  Anything else rejects the promise and the
\* handler's catch answers 500.
NoteResolve(outcome) ==
  /\ srvPc = "note"
  /\ IF outcome.kind = "ok"
       THEN /\ calls' = Append(calls, Call("associateEngagementToInstallation", req.pathId.str, ""))
            /\ srvPc' = "assoc"
            /\ res' = res
       ELSE /\ res' = PlacementFailed(outcome)
            /\ srvPc' = "done"
            /\ calls' = calls
  /\ UNCHANGED << srvFrame, fileId >>
  /\ UNCHANGED clientVars

\* Outcomes of the association request: a 2xx answer with an empty or JSON
\* body, a 2xx answer whose body is not JSON, another status, a network error.
AssocOutcomes == { "ok", "ok_not_json", "http_error", "network_error" }

\* associateEngagementToInstallation settles.  It resolves on every status
\* and on a network error, and the handler answers success.  JSON.parse of a
\* 2xx body that is not JSON throws inside the 'end' listener: the promise
\* never settles and no response is sent.
AssocResolve(outcome) ==
  /\ srvPc = "assoc"
  /\ IF outcome = "ok_not_json"
       THEN /\ srvPc' = "crashed"
            /\ res' = res
       ELSE /\ res' = [status |-> 200, error |-> "", message |-> "Site plan saved successfully",
                       fileId |-> JsonFileId(fileId), token |-> <<>>]
            /\ srvPc' = "done"
  /\ UNCHANGED << srvFrame, calls, fileId >>
  /\ UNCHANGED clientVars

\* GET /api/generate-url/:id (not gated).
GenerateUrlHandler ==
  /\ srvPc = "handler"
  /\ req.route = "generate-url"
  /\ IF Falsy(secret)
       THEN /\ res' = Reply(500, "SITE_PLAN_SECRET not configured",
                            "Cannot generate signed URLs without a secret")
            /\ minted' = minted
       ELSE LET t == generateSignedToken(req.pathId, secret, now).token
            IN /\ minted' = minted \cup {[id |-> req.pathId, t0 |-> now, token |-> t]}
               /\ res' = [status |-> 200, error |-> "", message |-> "", fileId |-> "", token |-> t]
  /\ srvPc' = "done"
  /\ UNCHANGED << secret, hubspotToken, mapsKey, now, ticks, req, authResult, calls, fileId >>
  /\ UNCHANGED clientVars

\* The response has been sent; the server is ready for the next request.
Respond ==
  /\ srvPc = "done"
  /\ srvPc' = "idle"
  /\ req' = NoReq
  /\ authResult' = NoResult
  /\ res' = NoRes
  /\ calls' = << >>
  /\ fileId' = ""
  /\ UNCHANGED << secret, hubspotToken, mapsKey, now, ticks, minted >>
  /\ UNCHANGED clientVars

\* generate-url requests are taken while the model has room for their token.
CanMint == Falsy(secret) \/ Cardinality(minted) < MaxMinted

ServerNext ==
  \/ \E d \in { 1, TOKEN_EXPIRY_MS } : Tick(d)
  \/ /\ srvPc = "idle"
     /\ \E id \in Ids, q \in QueryIds, t \in TokenValues, f \in BOOLEAN :
          \/ ReceiveRequest("installation", Str(id), q, t, FALSE, FALSE)
          \/ ReceiveRequest("placement", Str(id), q, t, f, FALSE)
          \/ ReceiveRequest("geocode", Undefined, q, t, FALSE, f)
          \/ CanMint /\ ReceiveRequest("generate-url", Str(id), Undefined, Undefined, FALSE, FALSE)
  \/ requireAuth
  \/ InstallationHandler
  \/ \E found \in BOOLEAN : InstallationResolve(found)
  \/ GeocodeHandler
  \/ \E o \in GeocodeOutcomes : GeocodeResolve(o)
  \/ PlacementHandler
  \/ \E o \in RequestOutcomes, fid \in FileIds \cup { UndefinedFileId } : StoreResolve(o, fid)
  \/ \E o \in RequestOutcomes : NoteResolve(o)
  \/ \E o \in AssocOutcomes : AssocResolve(o)
  \/ GenerateUrlHandler
  \/ Respond

\* A request on a route of an installation arrives with an altered copy of
\* a token the server handed out.
AlteredRequest ==
  /\ srvPc = "idle"
  /\ \E id \in Ids, m \in minted :
       \E t \in AlteredTokens(m.token) :
         \/ ReceiveRequest("installation", Str(id), Undefined, Str(t), FALSE, FALSE)
         \/ ReceiveRequest("placement", Str(id), Undefined, Str(t), TRUE, FALSE)

\* The server when clients also present altered tokens.
ServerNextAltered ==
  \/ ServerNext
  \/ AlteredRequest

(***************************************************************************)
(* Client: the annotation session (public/app.js).                         *)
(***************************************************************************)
\* Canvas coordinates a tap can report while the path tool is active.
PathTapPoints == { << 0, 0 >>, << 100, 0 >>, << 105, 2 >>, << 130, 0 >> }

\* Canvas coordinates a tap can report while a unit tool is active, and the
\* coordinates a drag can end at.
UnitTapPoints == { << 0, 0 >>, << 105, 2 >> }

TapPoints(tool) == IF tool = "line" THEN PathTapPoints ELSE UnitTapPoints

\* The finish gesture's radius around the last path point.
FinishRadius == 30

\* The objects the handlers put on the canvas.  The canvas is the bag of its
\* objects: their stacking order (sendToBack) is not part of the state.
Unit(label, x, y) ==
  [kind |-> "unit", label |-> label, x |-> x, y |-> y, x2 |-> 0, y2 |-> 0, dashed |-> FALSE]

PointMarker(x, y) ==
  [kind |-> "point", label |-> "", x |-> x, y |-> y, x2 |-> 0, y2 |-> 0, dashed |-> FALSE]

LineSegment(x1, y1, x2, y2) ==
  [kind |-> "segment", label |-> "", x |-> x1, y |-> y1, x2 |-> x2, y2 |-> y2, dashed |-> TRUE]

\* The objects of a canvas that are in the set kept, as a bag
\* (canvas.getObjects().filter(...)).
Restrict(objs, kept) == [o \in kept |-> objs[o]]

\* canvas.add(obj)
AddObject(objs, obj) == objs (+) SetToBag({ obj })

\* The handler that ran last; a tap on empty canvas keeps its pointer.
Event(name) == [name |-> name, x |-> 0, y |-> 0]

TapEvent(x, y) == [name |-> "tap", x |-> x, y |-> y]

\* disabled attribute of the save button in the page as loaded.
InitialSaveDisabled == TRUE

ClientInit ==
  /\ currentTool = "idu"
  /\ iduPlaced = FALSE
  /\ oduPlaced = FALSE
  /\ linePoints = << >>
  /\ objects = EmptyBag
  /\ saveDisabled = InitialSaveDisabled
  /\ modalShown = FALSE
  /\ inFlight = 0
  /\ lastEvent = Event("load")

\* updateSaveButton(), given the flags it reads.
updateSaveButton(idu, odu) == ~(idu \/ odu)

\* Mutant of selectTool: the tool cannot be changed while a path is open.
selectTool_NotWhileDrawing(tool) ==
  /\ ~(currentTool = "line" /\ linePoints # << >>)
  /\ currentTool' = tool
  /\ lastEvent' = Event("selectTool")
  /\ UNCHANGED << iduPlaced, oduPlaced, linePoints, objects, saveDisabled, modalShown, inFlight >>
  /\ UNCHANGED serverVars

\* selectTool(tool)
selectTool(tool) ==
  /\ currentTool' = tool
  /\ lastEvent' = Event("selectTool")
  /\ UNCHANGED << iduPlaced, oduPlaced, linePoints, objects, saveDisabled, modalShown, inFlight >>
  /\ UNCHANGED serverVars

\* Mutant of placeUnit: the existing marker of the type is not removed.
placeUnit_KeepOld(objs, label, x, y) == AddObject(objs, Unit(label, x, y))

\* placeUnit(label, x, y, color): the canvas after it.
placeUnit(objs, label, x, y) ==
  LET existingUnits == { o \in DOMAIN objs : o.kind = "unit" /\ o.label = label }
  IN AddObject(Restrict(objs, DOMAIN objs \ existingUnits), Unit(label, x, y))

\* Mutant of NearLast: a tap at exactly 30 units counts as near.
NearLast_Inclusive(x, y, lastPoint) ==
  (x - lastPoint.x) * (x - lastPoint.x) + (y - lastPoint.y) * (y - lastPoint.y)
    <= FinishRadius * FinishRadius

\* Math.sqrt(dx^2 + dy^2) < 30, on integer coordinates: dx^2 + dy^2 < 30^2.
NearLast(x, y, lastPoint) ==
  (x - lastPoint.x) * (x - lastPoint.x) + (y - lastPoint.y) * (y - lastPoint.y)
    < FinishRadius * FinishRadius

\* Mutant of IsFinishTap: a path of one point can be finished too.
IsFinishTap_AnyLength(pts, x, y) == Len(pts) > 0 /\ NearLast(x, y, pts[Len(pts)])

\* The check of addLinePoint that turns a tap into a finish.
IsFinishTap(pts, x, y) == Len(pts) > 1 /\ NearLast(x, y, pts[Len(pts)])

\* Mutant of finishLine: finishing also removes the point markers.
finishLine_RemovesPoints(objs) ==
  BagOfAll(LAMBDA o : IF o.kind = "segment" THEN [o EXCEPT !.dashed = FALSE] ELSE o,
           Restrict(objs, { o \in DOMAIN objs : o.kind # "point" }))

\* finishLine(): the canvas after it (every segment becomes solid).
finishLine(objs) ==
  BagOfAll(LAMBDA o : IF o.kind = "segment" THEN [o EXCEPT !.dashed = FALSE] ELSE o, objs)

\* finishLine() called with the path pts, the canvas objs and the active
\* tool: the canvas and the tool after it.  It returns at once on a path of
\* fewer than two points; otherwise it restyles the segments and calls
\* selectTool('idu').
finishLineCall(pts, objs, tool) ==
  IF Len(pts) < 2
    THEN [objects |-> objs, currentTool |-> tool]
    ELSE [objects |-> finishLine(objs), currentTool |-> "idu"]

\* Mutant of addLinePoint: the first point of a path gets no point marker.
addLinePoint_FirstUnmarked(objs, pts, x, y) ==
  IF Len(pts) >= 1
    THEN AddObject(AddObject(objs, PointMarker(x, y)),
                   LineSegment(pts[Len(pts)].x, pts[Len(pts)].y, x, y))
    ELSE objs

\* addLinePoint(x, y) when the tap extends the path pts: the canvas after it
\* (a point marker, and a dashed segment from the previous point if any).
addLinePoint(objs, pts, x, y) ==
  LET withPoint == AddObject(objs, PointMarker(x, y))
  IN IF Len(pts) >= 1
       THEN AddObject(withPoint, LineSegment(pts[Len(pts)].x, pts[Len(pts)].y, x, y))
       ELSE withPoint

\* Mutant of handleCanvasTap: with the path tool the target of the tap is
\* not looked at.
handleCanvasTap_PathIgnoresTarget(x, y, hit) ==
  /\ hit => \E o \in DOMAIN objects : o.kind = "unit"
  /\ lastEvent' = IF hit THEN Event("tapObject") ELSE TapEvent(x, y)
  /\ IF hit /\ currentTool # "line" THEN
       UNCHANGED << currentTool, iduPlaced, oduPlaced, linePoints, objects, saveDisabled >>
     ELSE IF currentTool = "idu" THEN
       /\ objects' = placeUnit(objects, "IDU", x, y)
       /\ iduPlaced' = TRUE
       /\ saveDisabled' = updateSaveButton(TRUE, oduPlaced)
       /\ UNCHANGED << currentTool, oduPlaced, linePoints >>
     ELSE IF currentTool = "odu" THEN
       /\ objects' = placeUnit(objects, "ODU", x, y)
       /\ oduPlaced' = TRUE
       /\ saveDisabled' = updateSaveButton(iduPlaced, TRUE)
       /\ UNCHANGED << currentTool, iduPlaced, linePoints >>
     ELSE IF IsFinishTap(linePoints, x, y) THEN
       /\ objects' = finishLine(objects)
       /\ currentTool' = "idu"
       /\ UNCHANGED << iduPlaced, oduPlaced, linePoints, saveDisabled >>
     ELSE
       /\ Len(linePoints) < MaxPath
       /\ linePoints' = Append(linePoints, [x |-> x, y |-> y])
       /\ objects' = addLinePoint(objects, linePoints, x, y)
       /\ saveDisabled' = updateSaveButton(iduPlaced, oduPlaced)
       /\ UNCHANGED << currentTool, iduPlaced, oduPlaced >>
  /\ UNCHANGED << modalShown, inFlight >>
  /\ UNCHANGED serverVars

\* handleCanvasTap(opt): pointer (x, y); hit is opt.target being set, which
\* needs a marker on the canvas (path points and segments are not evented).
handleCanvasTap(x, y, hit) ==
  /\ hit => \E o \in DOMAIN objects : o.kind = "unit"
  /\ lastEvent' = IF hit THEN Event("tapObject") ELSE TapEvent(x, y)
  /\ IF hit THEN
       UNCHANGED << currentTool, iduPlaced, oduPlaced, linePoints, objects, saveDisabled >>
     ELSE IF currentTool = "idu" THEN
       /\ objects' = placeUnit(objects, "IDU", x, y)
       /\ iduPlaced' = TRUE
       /\ saveDisabled' = updateSaveButton(TRUE, oduPlaced)
       /\ UNCHANGED << currentTool, oduPlaced, linePoints >>
     ELSE IF currentTool = "odu" THEN
       /\ objects' = placeUnit(objects, "ODU", x, y)
       /\ oduPlaced' = TRUE
       /\ saveDisabled' = updateSaveButton(iduPlaced, TRUE)
       /\ UNCHANGED << currentTool, iduPlaced, linePoints >>
     ELSE IF IsFinishTap(linePoints, x, y) THEN
       \* finishLine(); return
       /\ objects' = finishLineCall(linePoints, objects, currentTool).objects
       /\ currentTool' = finishLineCall(linePoints, objects, currentTool).currentTool
       /\ UNCHANGED << iduPlaced, oduPlaced, linePoints, saveDisabled >>
     ELSE
       /\ Len(linePoints) < MaxPath
       /\ linePoints' = Append(linePoints, [x |-> x, y |-> y])
       /\ objects' = addLinePoint(objects, linePoints, x, y)
       /\ saveDisabled' = updateSaveButton(iduPlaced, oduPlaced)
       /\ UNCHANGED << currentTool, iduPlaced, oduPlaced >>
  /\ UNCHANGED << modalShown, inFlight >>
  /\ UNCHANGED serverVars

\* A marker is dragged to (x, y): mouse:down reports the marker as target
\* (handleCanvasTap returns at once) and the canvas moves the marker.
DragMarker(label, x, y) ==
  /\ \E o \in DOMAIN objects : o.kind = "unit" /\ o.label = label
  /\ objects' = BagOfAll(LAMBDA o : IF o.kind = "unit" /\ o.label = label
                                      THEN [o EXCEPT !.x = x, !.y = y]
                                      ELSE o, objects)
  /\ lastEvent' = Event("drag")
  /\ UNCHANGED << currentTool, iduPlaced, oduPlaced, linePoints, saveDisabled, modalShown, inFlight >>
  /\ UNCHANGED serverVars

\* Mutant of clearAll: the path points are not reset.
clearAll_KeepsPath ==
  /\ LET objectsToRemove == { o \in DOMAIN objects : o.kind \in { "unit", "point", "segment" } }
     IN objects' = Restrict(objects, DOMAIN objects \ objectsToRemove)
  /\ iduPlaced' = FALSE
  /\ oduPlaced' = FALSE
  /\ saveDisabled' = updateSaveButton(FALSE, FALSE)
  /\ lastEvent' = Event("clear")
  /\ UNCHANGED << currentTool, linePoints, modalShown, inFlight >>
  /\ UNCHANGED serverVars

\* Mutant of clearAll: clearing also drops the uploads in flight.
clearAll_AbortsUpload ==
  /\ LET objectsToRemove == { o \in DOMAIN objects : o.kind \in { "unit", "point", "segment" } }
     IN objects' = Restrict(objects, DOMAIN objects \ objectsToRemove)
  /\ iduPlaced' = FALSE
  /\ oduPlaced' = FALSE
  /\ linePoints' = << >>
  /\ saveDisabled' = updateSaveButton(FALSE, FALSE)
  /\ inFlight' = 0
  /\ lastEvent' = Event("clear")
  /\ UNCHANGED << currentTool, modalShown >>
  /\ UNCHANGED serverVars

\* clearAll()
clearAll ==
  /\ LET objectsToRemove == { o \in DOMAIN objects : o.kind \in { "unit", "point", "segment" } }
     IN objects' = Restrict(objects, DOMAIN objects \ objectsToRemove)
  /\ iduPlaced' = FALSE
  /\ oduPlaced' = FALSE
  /\ linePoints' = << >>
  /\ saveDisabled' = updateSaveButton(FALSE, FALSE)
  /\ lastEvent' = Event("clear")
  /\ UNCHANGED << currentTool, modalShown, inFlight >>
  /\ UNCHANGED serverVars

\* savePlacement(), from the click to its first await: the button is
\* disabled, the canvas is exported and the upload starts.
savePlacement ==
  /\ ~saveDisabled
  /\ inFlight < MaxInFlight
  /\ saveDisabled' = TRUE
  /\ inFlight' = inFlight + 1
  /\ lastEvent' = Event("save")
  /\ UNCHANGED << currentTool, iduPlaced, oduPlaced, linePoints, objects, modalShown >>
  /\ UNCHANGED serverVars

\* savePlacement() resumes with a successful answer: the success dialog.
UploadSucceed ==
  /\ inFlight > 0
  /\ inFlight' = inFlight - 1
  /\ modalShown' = TRUE
  /\ lastEvent' = Event("uploadOk")
  /\ UNCHANGED << currentTool, iduPlaced, oduPlaced, linePoints, objects, saveDisabled >>
  /\ UNCHANGED serverVars

\* Mutant of UploadFail: the catch block does not reset the button.
UploadFail_NoReset ==
  /\ inFlight > 0
  /\ inFlight' = inFlight - 1
  /\ lastEvent' = Event("uploadFail")
  /\ UNCHANGED << currentTool, iduPlaced, oduPlaced, linePoints, objects, saveDisabled, modalShown >>
  /\ UNCHANGED serverVars

\* savePlacement() resumes in its catch block (network error or an answer
\* that is not ok): the button is reset.
UploadFail ==
  /\ inFlight > 0
  /\ inFlight' = inFlight - 1
  /\ saveDisabled' = FALSE
  /\ lastEvent' = Event("uploadFail")
  /\ UNCHANGED << currentTool, iduPlaced, oduPlaced, linePoints, objects, modalShown >>
  /\ UNCHANGED serverVars

\* closeSuccessModal(), exported on window: it hides the dialog, open or
\* not, and enables the save control.
closeSuccessModal ==
  /\ modalShown' = FALSE
  /\ saveDisabled' = FALSE
  /\ lastEvent' = Event("closeModal")
  /\ UNCHANGED << currentTool, iduPlaced, oduPlaced, linePoints, objects, inFlight >>
  /\ UNCHANGED serverVars

ClientNext ==
  \/ \E tool \in { "idu", "odu", "line" } : selectTool(tool)
  \/ \E p \in TapPoints(currentTool), hit \in BOOLEAN : handleCanvasTap(p[1], p[2], hit)
  \/ \E label \in { "IDU", "ODU" }, p \in UnitTapPoints : DragMarker(label, p[1], p[2])
  \/ clearAll
  \/ savePlacement
  \/ UploadSucceed
  \/ UploadFail
  \/ closeSuccessModal

(***************************************************************************)
(* Specifications.                                                         *)
(***************************************************************************)
Init == ServerInit /\ ClientInit

\* The server alone: the page is not open.
SpecServer == Init /\ [][ServerNext]_vars

\* One page load: the session of the client.
SessionInit == Init /\ secret = Undefined /\ hubspotToken /\ mapsKey

SpecSession == SessionInit /\ [][ClientNext]_vars

\* The server alone, altered tokens among the requests.
SpecServerAltered == Init /\ [][ServerNextAltered]_vars

\* The steps of the session, every tap at one of the two unit tap points.
LiveNext ==
  \/ \E tool \in { "idu", "odu", "line" } : selectTool(tool)
  \/ \E p \in UnitTapPoints, hit \in BOOLEAN : handleCanvasTap(p[1], p[2], hit)
  \/ \E label \in { "IDU", "ODU" }, p \in UnitTapPoints : DragMarker(label, p[1], p[2])
  \/ clearAll
  \/ savePlacement
  \/ UploadSucceed
  \/ UploadFail
  \/ closeSuccessModal

\* The session when every request of savePlacement is eventually answered
\* or fails: an awaited fetch that is pending is eventually settled.
SpecSessionLive == SessionInit /\ [][LiveNext]_vars /\ WF_vars(UploadSucceed \/ UploadFail)

(***************************************************************************)
(* Properties.                                                             *)
(***************************************************************************)
\* The request has passed through requireAuth.
Verified == authResult # NoResult

\* C1: a token minted at time t0 for an id, verified at time t1 (now) for the
\* same id under the same secret, is valid if and only if t1 <= t0 + 7 days.
C1_ValidWithinSevenDays ==
  \A m \in minted :
    (Verified /\ req.token = Str(m.token) /\ AuthId(req) = m.id)
      => (authResult.valid <=> now <= m.t0 + 7 * 24 * 60 * 60 * 1000)

\* C1 witness: a minted token verified, and found valid, exactly at its
\* expiry instant t0 + 7 days.
C1_Witness ==
  \E m \in minted :
    /\ Verified /\ req.token = Str(m.token) /\ AuthId(req) = m.id
    /\ now = m.t0 + TOKEN_EXPIRY_MS
    /\ authResult.valid

\* C2: a token minted for installation A is rejected when it is checked
\* against another installation id (or none), at any time.
C2_OtherInstallationRejected ==
  \A m \in minted :
    (Verified /\ req.token = Str(m.token) /\ AuthId(req) # m.id
       /\ \A m2 \in minted : m2.token = m.token => m2.id = m.id)
      => ~authResult.valid

\* C2 witness: a token minted for A, not yet expired, presented on a route
\* of installation B and rejected for its signature.
C2_Witness ==
  \E m \in minted :
    /\ Verified /\ req.token = Str(m.token)
    /\ m.id = Str(<< "A" >>) /\ AuthId(req) = Str(<< "B" >>)
    /\ now <= m.t0 + TOKEN_EXPIRY_MS
    /\ authResult = [valid |-> FALSE, error |-> "Invalid token signature"]

\* C3: when verifySignedToken reports invalid, the answer is 403 'Access
\* denied' with the reason, and the route's handler never runs: the request
\* is finished and no external call was made.
C3_InvalidIsRejected ==
  (Verified /\ ~authResult.valid)
    => /\ res = [status |-> 403, error |-> "Access denied", message |-> authResult.error,
                 fileId |-> "", token |-> <<>>]
       /\ srvPc = "done"
       /\ calls = << >>

\* C3 witness: an upload request with an image and a minted token that has
\* expired, answered 403.
C3_Witness ==
  /\ req.route = "placement" /\ req.hasFile /\ hubspotToken
  /\ \E m \in minted : req.token = Str(m.token) /\ AuthId(req) = m.id
                          /\ now > m.t0 + TOKEN_EXPIRY_MS
  /\ authResult = [valid |-> FALSE, error |-> "Token has expired"]
  /\ res.status = 403

\* C4 as claimed: while an upload is in flight the save action is disabled,
\* and at most one upload is in flight.
C4_SaveDisabledWhileInFlight == (inFlight > 0 => saveDisabled) /\ inFlight <= 1

HasUnit(label) == \E o \in DOMAIN objects : o.kind = "unit" /\ o.label = label

\* C5 as claimed: the save action is enabled only if the indoor or the
\* outdoor marker is set.
C5_SaveNeedsMarker == ~saveDisabled => (HasUnit("IDU") \/ HasUnit("ODU"))

\* C6: the step in which an upload fails changes neither the markers, nor
\* the path, nor the active tool, and leaves the save control enabled.
C6_FailedUploadKeepsSession ==
  [][ (lastEvent'.name = "uploadFail")
        => /\ objects' = objects
           /\ linePoints' = linePoints
           /\ currentTool' = currentTool
           /\ iduPlaced' = iduPlaced /\ oduPlaced' = oduPlaced
           /\ saveDisabled' = FALSE ]_vars

\* C6 witness: an upload has just failed with both markers and a two-point
\* path drawn; the save control is enabled again.
C6_Witness ==
  /\ lastEvent.name = "uploadFail"
  /\ HasUnit("IDU") /\ HasUnit("ODU") /\ Len(linePoints) = 2
  /\ inFlight = 0 /\ ~saveDisabled

\* C7 as claimed: once the store step has succeeded, a finished placement
\* request is answered with success and the fileId, whatever the attach step
\* did.
C7_AttachFailureStillSuccess ==
  (req.route = "placement" /\ srvPc = "done" /\ fileId # "")
    => (res.status = 200 /\ res.fileId = fileId)

\* C8: with no signing secret (unset or empty), every gated request passes
\* the gate, whatever its id and token: verifySignedToken returns valid and no
\* 403 is sent.
C8_NoSecretEverythingValid ==
  (secret \in { Undefined, Str(<<>>) } /\ req.route \in GatedRoutes /\ srvPc # "gate")
    => (authResult = [valid |-> TRUE, error |-> NoError] /\ res.status # 403)

\* C8 witness: no secret, a request with an empty token string has passed
\* the gate and reached its handler.
C8_Witness ==
  /\ secret = Str(<<>>)
  /\ req.token = Str(<<>>)
  /\ srvPc = "handler"
  /\ authResult.valid

UnitsOf(objs, label) == [o \in { e \in DOMAIN objs : e.kind = "unit" /\ e.label = label } |-> objs[o]]

\* C9: after every step the canvas holds at most one indoor and at most one
\* outdoor marker; a tap on empty canvas with a unit tool active leaves exactly
\* one marker of that type, at the tap's coordinates, and leaves the markers
\* of the other type as they were.
C9_OneMarkerPerType ==
  [][ /\ BagCardinality(UnitsOf(objects', "IDU")) <= 1
      /\ BagCardinality(UnitsOf(objects', "ODU")) <= 1
      /\ (lastEvent'.name = "tap" /\ currentTool = "idu")
           => /\ UnitsOf(objects', "IDU") = SetToBag({ Unit("IDU", lastEvent'.x, lastEvent'.y) })
              /\ UnitsOf(objects', "ODU") = UnitsOf(objects, "ODU")
      /\ (lastEvent'.name = "tap" /\ currentTool = "odu")
           => /\ UnitsOf(objects', "ODU") = SetToBag({ Unit("ODU", lastEvent'.x, lastEvent'.y) })
              /\ UnitsOf(objects', "IDU") = UnitsOf(objects, "IDU") ]_vars

\* C9 witness: with no path drawn, the indoor tool has just been tapped at
\* (105, 2) with an outdoor marker at (0, 0): one indoor marker, at (105, 2).
C9_Witness ==
  /\ lastEvent = TapEvent(105, 2)
  /\ currentTool = "idu"
  /\ UnitsOf(objects, "IDU") = SetToBag({ Unit("IDU", 105, 2) })
  /\ UnitsOf(objects, "ODU") = SetToBag({ Unit("ODU", 0, 0) })
  /\ linePoints = << >>

\* The tap kept by lastEvent' is strictly less than 30 units from the last
\* point of the path.
TapNearLastPoint ==
  LET last == linePoints[Len(linePoints)]
      dx == lastEvent'.x - last.x
      dy == lastEvent'.y - last.y
  IN dx * dx + dy * dy < 30 * 30

\* C10 as claimed: a tap on empty canvas with the path tool active and a
\* path of at least one point finishes the path when it is within 30 units
\* of the last point (path unchanged, tool indoor) and is appended otherwise.
C10_FinishFromAnyLastPoint ==
  [][ (lastEvent'.name = "tap" /\ currentTool = "line" /\ Len(linePoints) >= 1)
        => IF TapNearLastPoint
             THEN linePoints' = linePoints /\ currentTool' = "idu"
             ELSE linePoints' = Append(linePoints, [x |-> lastEvent'.x, y |-> lastEvent'.y]) ]_vars

\* C10 amended: the finish gesture needs a path of at least two points.  With
\* two or more points a tap within 30 units of the last point leaves the path
\* unchanged and switches to the indoor tool; every other tap (also every tap
\* on a path of one point) is appended and leaves the tool unchanged.
C10_FinishNeedsTwoPoints ==
  [][ (lastEvent'.name = "tap" /\ currentTool = "line" /\ Len(linePoints) >= 1)
        => IF Len(linePoints) >= 2 /\ TapNearLastPoint
             THEN linePoints' = linePoints /\ currentTool' = "idu"
             ELSE /\ linePoints' = Append(linePoints, [x |-> lastEvent'.x, y |-> lastEvent'.y])
                  /\ currentTool' = "line" ]_vars

\* C10 witness: with no marker placed, the path (0,0),(100,0) was tapped at
\* (105, 2): the path is
\* finished with its two points, its segment is solid, the tool is indoor.
C10_Witness ==
  /\ lastEvent = TapEvent(105, 2)
  /\ linePoints = << [x |-> 0, y |-> 0], [x |-> 100, y |-> 0] >>
  /\ currentTool = "idu"
  /\ ~HasUnit("IDU") /\ ~HasUnit("ODU")
  /\ \A o \in DOMAIN objects : o.kind = "segment" => ~o.dashed

\* Squared distance from the tap kept by lastEvent' to the point of the path
\* at index i.
TapDist2(i) ==
  (lastEvent'.x - linePoints[i].x) * (lastEvent'.x - linePoints[i].x)
    + (lastEvent'.y - linePoints[i].y) * (lastEvent'.y - linePoints[i].y)

\* The step finished the path: the path is as it was and the tool is indoor.
PathFinished == linePoints' = linePoints /\ currentTool' = "idu"

\* The step appended the tap to the path and kept the path tool.
PathExtended ==
  /\ linePoints' = Append(linePoints, [x |-> lastEvent'.x, y |-> lastEvent'.y])
  /\ currentTool' = "line"

\* C11 as claimed: a tap on empty canvas with the path tool active, on a path
\* of at least one point, is a finish exactly when it is strictly less than 30
\* units from the last point; otherwise (at exactly 30 units too, and also when
\* it is near an earlier point only) it extends the path and keeps the tool.
C11_FinishIffWithin30OfLast ==
  [][ (lastEvent'.name = "tap" /\ currentTool = "line" /\ Len(linePoints) >= 1)
        => /\ PathFinished <=> TapDist2(Len(linePoints)) < 900
           /\ TapDist2(Len(linePoints)) >= 900 => PathExtended ]_vars

\* C11 amended: on a path of at least two points, a tap on empty canvas with
\* the path tool active is a finish exactly when it is strictly less than 30
\* units from the last point; a tap at exactly 30 units from the last point,
\* and a tap near an earlier point but 30 or more units from the last one,
\* extends the path and keeps the path tool.
C11_FinishIffWithin30OfLastOfTwo ==
  [][ (lastEvent'.name = "tap" /\ currentTool = "line" /\ Len(linePoints) >= 2)
        => /\ PathFinished <=> TapDist2(Len(linePoints)) < 900
           /\ TapDist2(Len(linePoints)) = 900 => PathExtended
           /\ ( /\ \E i \in 1..(Len(linePoints) - 1) : TapDist2(i) < 900
                /\ TapDist2(Len(linePoints)) >= 900 ) => PathExtended ]_vars

\* C11 witness: the path (0,0),(100,0) was tapped at (130, 0), exactly 30
\* units from its last point: the tap is the third point and the path tool is
\* still active.
C11_Witness ==
  /\ lastEvent = TapEvent(130, 0)
  /\ linePoints = << [x |-> 0, y |-> 0], [x |-> 100, y |-> 0], [x |-> 130, y |-> 0] >>
  /\ currentTool = "line"
  /\ \E o \in DOMAIN objects : o.kind = "segment" /\ o.dashed

\* C12: the clear action, from any state of the session, leaves no marker, no
\* path point and no segment on the canvas, both markers unset, the path
\* empty and the save control disabled, and it leaves the active tool as it
\* was.
C12_ClearEmptiesSession ==
  [][ (lastEvent'.name = "clear")
        => /\ \A o \in DOMAIN objects' : o.kind \notin { "unit", "point", "segment" }
           /\ ~iduPlaced' /\ ~oduPlaced'
           /\ linePoints' = << >>
           /\ saveDisabled'
           /\ currentTool' = currentTool ]_vars

\* C12 witness: the session was cleared while its upload was in flight (so a
\* marker had been placed) and with the path tool active: nothing is left and
\* the path tool is still active.
C12_Witness ==
  /\ lastEvent.name = "clear"
  /\ inFlight > 0
  /\ currentTool = "line"
  /\ objects = EmptyBag /\ linePoints = << >> /\ saveDisabled

\* C13 as claimed: after a tap on empty canvas or a clear, handled while no
\* upload is in flight and no success dialog is open, the save control is
\* enabled if and only if the indoor or the outdoor marker is on the canvas.
C13_SaveTracksMarkers ==
  [][ (lastEvent'.name \in { "tap", "clear" } /\ inFlight = 0 /\ ~modalShown)
        => (~saveDisabled' <=> \E o \in DOMAIN objects' : o.kind = "unit") ]_vars

\* A secret is configured and the request came with a token that is not
\* empty, and verifySignedToken has answered.
GateChecked ==
  /\ Verified
  /\ secret \notin { Undefined, Str(<<>>) }
  /\ req.token \notin { Undefined, Str(<<>>) }

\* The fields of the decoded payload of the request's token.
ReqFields == Split(Utf8String(Base64UrlDecode(req.token.str)), ":")

\* The expiry the payload of the request's token carries, as parseInt reads it.
ReqExpiry == ParseInt(ReqFields[1])

IsNumeric(str) == str # << >> /\ \A i \in 1..Len(str) : IsDigit(str[i])

IsHex64(str) == Len(str) = 64 /\ \A i \in 1..Len(str) : str[i] \in HexDigitChars

\* The payload is not '<numeric expiry>:<hex signature>'.
Malformed(fields) ==
  \/ Len(fields) < 2
  \/ ~IsNumeric(fields[1])
  \/ ~IsHex64(fields[2])

\* C14 as claimed: with a secret configured, every present token whose
\* payload is malformed (no ':', a non-numeric expiry, or a signature that is
\* missing, not hexadecimal or of the wrong length) is rejected with the
\* reason 'Invalid token format'.
C14_MalformedIsInvalidFormat ==
  (GateChecked /\ Malformed(ReqFields))
    => authResult = [valid |-> FALSE, error |-> "Invalid token format"]

\* C15 as claimed: with a secret configured, every unexpired token whose
\* signature part differs from the keyed hash of 'installationId:expiry',
\* whatever its length or content, is rejected with the reason 'Invalid token
\* signature'.
C15_MismatchIsInvalidSignature ==
  GateChecked =>
    LET fields == ReqFields
        expiry == ParseInt(fields[1])
    IN (~expiry.nan /\ now <= expiry.val
          /\ (Len(fields) < 2
                \/ fields[2] # HmacSha256Hex(secret.str, SignedData(AuthId(req), expiry.val))))
         => authResult = [valid |-> FALSE, error |-> "Invalid token signature"]

\* C15 amended: with a secret configured, an unexpired token whose signature
\* part decodes to 32 bytes that differ from the keyed hash is rejected with
\* the reason 'Invalid token signature'; one whose signature part is absent
\* or decodes to another number of bytes is rejected with the reason 'Invalid
\* token format'.
C15_MismatchOfEqualLengthIsInvalidSignature ==
  GateChecked =>
    LET fields == ReqFields
        expiry == ParseInt(fields[1])
        provided == HexDecode(fields[2])
        expected == HexDecode(HmacSha256Hex(secret.str, SignedData(AuthId(req), expiry.val)))
    IN (~expiry.nan /\ now <= expiry.val)
         => IF Len(fields) < 2
              THEN authResult = [valid |-> FALSE, error |-> "Invalid token format"]
            ELSE IF Len(provided) # 32
              THEN authResult = [valid |-> FALSE, error |-> "Invalid token format"]
            ELSE IF provided # expected
              THEN authResult = [valid |-> FALSE, error |-> "Invalid token signature"]
            ELSE authResult.valid

\* C15 witness: a token for installation A signed with another key, not
\* expired, was presented for installation A and rejected for its signature.
C15_Witness ==
  /\ GateChecked
  /\ req.token = Str(ForgedToken)
  /\ AuthId(req) = Str(<< "A" >>)
  /\ authResult = [valid |-> FALSE, error |-> "Invalid token signature"]

\* C16: with a secret configured, a token whose decoded expiry is a number
\* earlier than the current time is rejected with the reason 'Token has
\* expired', and a token verified exactly at its expiry instant is not
\* rejected as expired.
C16_ExpiredAfterExpiryOnly ==
  GateChecked =>
    LET expiry == ReqExpiry
    IN ~expiry.nan
         => /\ expiry.val < now
                 => authResult = [valid |-> FALSE, error |-> "Token has expired"]
            /\ expiry.val = now => authResult.error # "Token has expired"

\* C16 witness: a token the server handed out was presented one millisecond
\* after its expiry instant and rejected as expired.
C16_Witness ==
  \E m \in minted :
    /\ GateChecked
    /\ req.token = Str(m.token) /\ AuthId(req) = m.id
    /\ now = m.t0 + TOKEN_EXPIRY_MS + 1
    /\ authResult = [valid |-> FALSE, error |-> "Token has expired"]

\* The results verifySignedToken can return: valid without a reason, or
\* invalid with one of its reason strings.
StructuredResults ==
  { [valid |-> TRUE, error |-> NoError] }
    \cup [valid : { FALSE },
          error : { "Missing authentication token", "Token has expired",
                    "Invalid token signature", "Invalid token format" }]

\* C17: verifySignedToken never raises: whatever the id (also an absent one),
\* the token and the secret, the gate gets a structured result, and every
\* invalid result carries a reason string.
C17_VerifyAlwaysStructured ==
  (req.route \in { "installation", "placement", "geocode" } /\ srvPc # "gate")
    => authResult \in StructuredResults

\* C17 witness: a geocode request without any id, with a token whose
\* signature has the wrong length (the comparison throws): the result is
\* invalid with the reason 'Invalid token format'.
C17_Witness ==
  /\ GateChecked
  /\ req.route = "geocode" /\ AuthId(req) = Undefined
  /\ req.token = Str(ShortSignatureToken)
  /\ authResult = [valid |-> FALSE, error |-> "Invalid token format"]

\* C18: with a secret configured, on the three gated routes every external
\* call is made after verifySignedToken returned valid for the request's id
\* and token, the calls that name an installation name that id, and a request
\* that was rejected has made no external call.
C18_ExternalCallsOnlyAfterValid ==
  (secret \notin { Undefined, Str(<<>>) }
     /\ req.route \in { "installation", "placement", "geocode" })
    => /\ calls # << >> => authResult = [valid |-> TRUE, error |-> NoError]
       /\ (Verified /\ ~authResult.valid) => calls = << >>
       /\ \A i \in 1..Len(calls) :
            calls[i].op \in { "getInstallationById", "createNote",
                              "associateEngagementToInstallation" }
              => Str(calls[i].id) = AuthId(req)

\* C18 witness: with a secret configured, a geocode request that carried a
\* token the server handed out has made its external call.
C18_Witness ==
  /\ secret \notin { Undefined, Str(<<>>) }
  /\ req.route = "geocode"
  /\ \E m \in minted : req.token = Str(m.token)
  /\ authResult.valid
  /\ calls # << >>

\* C19 as claimed: in every configuration, an authorized placement request
\* without an image is answered 400 and makes no external call, and an
\* authorized one with an image whose store step fails is answered 500.
C19_MissingImageIs400 ==
  (req.route = "placement" /\ srvPc = "done" /\ authResult.valid)
    => /\ ~req.hasFile => (res.status = 400 /\ calls = << >>)
       /\ (req.hasFile /\ Len(calls) = 1) => res.status = 500

\* C19 amended: with HubSpot configured, an authorized placement request
\* without an image is answered 400 and makes no external call, and one with
\* an image whose store step fails is answered 500; without HubSpot
\* configured every authorized placement request, with or without an image,
\* is answered 500 'HubSpot not configured' and makes no external call.
C19_MissingImageIs400WhenConfigured ==
  (req.route = "placement" /\ srvPc = "done" /\ authResult.valid)
    => /\ ~hubspotToken
            => (res.status = 500 /\ res.error = "HubSpot not configured" /\ calls = << >>)
       /\ (hubspotToken /\ ~req.hasFile) => (res.status = 400 /\ calls = << >>)
       /\ (hubspotToken /\ req.hasFile /\ Len(calls) = 1) => res.status = 500

\* C19 witness: with a secret and HubSpot configured, a placement request
\* with a valid token and no image has been answered 400 without any call.
C19_Witness ==
  /\ GateChecked /\ authResult.valid
  /\ hubspotToken
  /\ req.route = "placement" /\ ~req.hasFile
  /\ srvPc = "done"
  /\ res.status = 400 /\ calls = << >>

\* C20: /api/generate-url/:id is answered without passing the gate and
\* without a token: 500 when no secret is set; otherwise 200 with a token that
\* verifySignedToken accepts for that id now and up to 7 days from now,
\* rejects one millisecond later, and rejects for every other id and for no
\* id.
C20_GenerateUrlUngated ==
  (req.route = "generate-url" /\ srvPc = "done")
    => /\ authResult = NoResult
       /\ req.token = Undefined
       /\ IF secret \in { Undefined, Str(<<>>) }
            THEN res.status = 500
            ELSE /\ res.status = 200
                 /\ verifySignedToken(req.pathId, Str(res.token), secret, now).valid
                 /\ verifySignedToken(req.pathId, Str(res.token), secret,
                                      now + 7 * 24 * 60 * 60 * 1000).valid
                 /\ ~verifySignedToken(req.pathId, Str(res.token), secret,
                                       now + 7 * 24 * 60 * 60 * 1000 + 1).valid
                 /\ \A other \in { Undefined } \cup { Str(i) : i \in Ids } :
                      other # req.pathId
                        => ~verifySignedToken(other, Str(res.token), secret, now).valid

\* C20 witness: with a secret configured, a generate-url request for
\* installation B has been answered 200 with a token.
C20_Witness ==
  /\ secret \notin { Undefined, Str(<<>>) }
  /\ req.route = "generate-url" /\ req.pathId = Str(<< "B" >>)
  /\ srvPc = "done"
  /\ res.status = 200 /\ res.token # << >>

\* The values of currentTool.
Tools == { "idu", "odu", "line" }

\* C21: in every reachable state of the session exactly one of the three
\* tools is active, the indoor tool when the page has just loaded; and from
\* every state, whatever tool is active, each of the three tools can be
\* selected and becomes the active one.
C21_OneToolAlwaysSelectable ==
  /\ currentTool \in Tools
  /\ lastEvent.name = "load" => currentTool = "idu"
  /\ \A tool \in Tools : ENABLED (selectTool(tool) /\ currentTool' = tool)

\* C21 witness: the outdoor tool has just been selected in the middle of a
\* path, while an upload is in flight and the success dialog is open.
C21_Witness ==
  /\ lastEvent.name = "selectTool"
  /\ currentTool = "odu"
  /\ Len(linePoints) = 1
  /\ inFlight > 0 /\ modalShown

\* C22 as claimed: the step that confirms the success dialog discards the
\* session: afterwards no marker and no path is left, as on page load, and
\* the same annotations cannot be saved again.
C22_ConfirmDiscardsSession ==
  [][ (modalShown /\ lastEvent'.name = "closeModal")
        => /\ ~iduPlaced' /\ ~oduPlaced'
           /\ linePoints' = << >>
           /\ objects' = EmptyBag
           /\ saveDisabled' ]_vars

\* C23: the two remote steps of a placement request run in sequence.  The
\* attach step (note, then association) is started only after the store step
\* has resolved, and with the file id the store step returned; while the
\* store step is pending, and after it has failed, no attach request exists,
\* and a failed store step is answered 500; the fileId of a success response
\* is the store step's (left out when the store step returned none).
C23_StoreThenAttach ==
  req.route = "placement" =>
    /\ \A i \in DOMAIN calls :
         calls[i].op # "uploadFileToHubSpot"
           => /\ i > 1 /\ calls[1].op = "uploadFileToHubSpot"
              /\ fileId \in FileIds \cup { UndefinedFileId }
              /\ calls[2] = Call("createNote", req.pathId.str, fileId)
    /\ (srvPc = "store" \/ fileId = "") => Len(calls) <= 1
    /\ (srvPc = "done" /\ Len(calls) = 1) => (fileId = "" /\ res.status = 500)
    /\ res.status = 200
         => /\ Len(calls) = 3 /\ calls[2].fileId = fileId
            /\ res.fileId = (IF fileId \in FileIds THEN fileId ELSE "")

\* C23 witness: a placement request answered with success after the store
\* step returned f2: the note was created with f2 and the answer carries f2.
C23_Witness ==
  /\ req.route = "placement" /\ srvPc = "done"
  /\ res.status = 200 /\ res.fileId = "f2"
  /\ calls = << Call("uploadFileToHubSpot", << >>, ""),
                Call("createNote", req.pathId.str, "f2"),
                Call("associateEngagementToInstallation", req.pathId.str, "") >>

\* An upload has just ended in one of its two outcomes: the success dialog
\* is shown, or the failure was reported and the save control is enabled.
UploadSettled ==
  \/ lastEvent.name = "uploadOk" /\ modalShown
  \/ lastEvent.name = "uploadFail" /\ ~saveDisabled

\* C24: when the network eventually answers or errors, a state with an
\* upload in flight is eventually followed by one of the two outcomes, the
\* success dialog shown or the failure reported with the save control
\* enabled again, and each ending is exactly one of the two; and no tap,
\* drag, clear or tool selection handled meanwhile ends an upload: the number
\* of uploads in flight goes down only by one, in a step that is one of the
\* two outcomes.
C24_UploadRunsToOutcome ==
  /\ [][ inFlight' < inFlight
           => /\ inFlight' = inFlight - 1
              /\ \/ lastEvent'.name = "uploadOk" /\ modalShown'
                 \/ lastEvent'.name = "uploadFail" /\ ~saveDisabled' /\ modalShown' = modalShown ]_vars
  /\ [][ lastEvent'.name \in { "tap", "tapObject", "drag", "clear", "selectTool", "closeModal" }
           => inFlight' = inFlight ]_vars
  /\ (inFlight > 0) ~> UploadSettled

\* C24 witness: an upload has ended with the success dialog after the
\* session was cleared and a path was begun while it was in flight.
C24_Witness ==
  /\ lastEvent.name = "uploadOk" /\ modalShown /\ inFlight = 0
  /\ ~iduPlaced /\ ~oduPlaced
  /\ currentTool = "line" /\ Len(linePoints) = 2

\* C25: a tap whose target is an existing marker changes nothing in the
\* session, whichever tool is active: markers, flags, path, canvas objects,
\* active tool, save state, dialog and uploads are as before.
C25_TapOnMarkerChangesNothing ==
  [][ (lastEvent'.name = "tapObject")
        => /\ objects' = objects
           /\ iduPlaced' = iduPlaced /\ oduPlaced' = oduPlaced
           /\ linePoints' = linePoints
           /\ currentTool' = currentTool
           /\ saveDisabled' = saveDisabled
           /\ modalShown' = modalShown /\ inFlight' = inFlight ]_vars

\* C25 witness: a marker has just been tapped with the path tool active and
\* a path of two points open, which a tap on empty canvas would have
\* extended or finished.
C25_Witness ==
  /\ lastEvent.name = "tapObject"
  /\ currentTool = "line"
  /\ Len(linePoints) = 2
  /\ HasUnit("ODU")

\* The routes with the installation id in the path.
PathIdRoutes == { "installation", "placement" }

\* C26: on the routes with the id in the path, the gate verifies the token
\* against the path id, the id the handler works on, whatever 'id' query
\* parameter the request carries: a minted token presented there is valid
\* if and only if it was minted for the path id and has not expired, so a
\* token minted for A never opens a lookup or an upload on B; and every
\* external call that names an installation names the path id.
C26_GateVerifiesPathId ==
  (req.route \in PathIdRoutes /\ Verified) =>
    /\ \A m \in minted :
         req.token = Str(m.token)
           => (authResult.valid <=> (m.id = req.pathId /\ now <= m.t0 + TOKEN_EXPIRY_MS))
    /\ \A i \in DOMAIN calls : calls[i].id \in { << >>, req.pathId.str }

\* C26 witness: an upload on installation B with ?id=A and an unexpired token
\* minted for A is rejected for its signature, before any external call.
C26_Witness ==
  /\ req.route = "placement" /\ req.hasFile /\ hubspotToken
  /\ req.pathId = Str(<< "B" >>) /\ req.queryId = Str(<< "A" >>)
  /\ \E m \in minted : /\ req.token = Str(m.token) /\ m.id = Str(<< "A" >>)
                       /\ now <= m.t0 + TOKEN_EXPIRY_MS
  /\ authResult = [valid |-> FALSE, error |-> "Invalid token signature"]
  /\ srvPc = "done" /\ calls = << >>

\* C27 as claimed: with a secret configured, a token is accepted only if its
\* payload is exactly '<expiry digits>:<64 hex characters>': two fields, the
\* first of digits only, the second of 64 hexadecimal characters only.
C27_OnlyExactPayloadAccepted ==
  (GateChecked /\ authResult.valid)
    => LET fields == ReqFields
       IN Len(fields) = 2 /\ IsNumeric(fields[1]) /\ IsHex64(fields[2])

\* C30 as claimed: whatever the outcome of the association request,
\* associateEngagementToInstallation settles without rejecting, so the step
\* in which the association request ends leaves the placement request
\* answered (with success).
C30_AssociationAlwaysSettles ==
  [][ (srvPc = "assoc" /\ srvPc' # "assoc")
        => (srvPc' = "done" /\ res'.status = 200) ]_vars

\* Number of objects of a kind on the canvas.
CountKind(kind) ==
  BagCardinality(Restrict(objects, { o \in DOMAIN objects : o.kind = kind }))

\* C28: in every reachable state of the session the bookkeeping agrees with
\* the canvas: iduPlaced iff an object labelled IDU is drawn, oduPlaced iff
\* one labelled ODU is drawn, as many point markers as path points, and one
\* segment fewer than path points (none for an empty path).
C28_BookkeepingMatchesCanvas ==
  /\ iduPlaced <=> \E o \in DOMAIN objects : o.kind = "unit" /\ o.label = "IDU"
  /\ oduPlaced <=> \E o \in DOMAIN objects : o.kind = "unit" /\ o.label = "ODU"
  /\ CountKind("point") = Len(linePoints)
  /\ CountKind("segment") = IF Len(linePoints) = 0 THEN 0 ELSE Len(linePoints) - 1

\* C28 witness: a path of three points through the same place twice, with
\* the outdoor marker set and the indoor marker not.
C28_Witness ==
  /\ oduPlaced /\ ~iduPlaced
  /\ Len(linePoints) = 3 /\ linePoints[1] = linePoints[3]
  /\ CountKind("point") = 3 /\ CountKind("segment") = 2

\* The canvas objs with the style of its segments left out of account.
StyleErased(objs) == BagOfAll(LAMBDA o : [o EXCEPT !.dashed = FALSE], objs)

\* The step is a tap on empty canvas that finishes the path: the path tool
\* is active, the path has two points or more and the tap kept by lastEvent'
\* is less than 30 units from the last of them.
FinishStep ==
  /\ lastEvent'.name = "tap"
  /\ currentTool = "line"
  /\ Len(linePoints) >= 2
  /\ TapDist2(Len(linePoints)) < FinishRadius * FinishRadius

\* C29: a step that finishes the path makes the indoor tool active and every
\* segment solid, and changes nothing else: the path points (so later path
\* taps still extend the same path), the markers, the point markers, the
\* geometry of the segments, the flags, the save state, the dialog and the
\* uploads are as before.  And finishLine called on a path of fewer than two
\* points changes neither the canvas nor the active tool.
C29_FinishChangesToolAndStyleOnly ==
  [][ /\ FinishStep
           => /\ currentTool' = "idu"
              /\ \A o \in DOMAIN objects' : o.kind = "segment" => ~o.dashed
              /\ StyleErased(objects') = StyleErased(objects)
              /\ linePoints' = linePoints
              /\ iduPlaced' = iduPlaced /\ oduPlaced' = oduPlaced
              /\ saveDisabled' = saveDisabled
              /\ modalShown' = modalShown /\ inFlight' = inFlight
      /\ Len(linePoints) < 2
           => finishLineCall(linePoints, objects, currentTool)
                = [objects |-> objects, currentTool |-> currentTool] ]_vars

\* C29 witness: a path of three points has just been finished with no marker
\* set: the indoor tool is active, both segments are solid, the three points
\* and their markers are still there and the save control is still disabled.
C29_Witness ==
  /\ lastEvent.name = "tap" /\ currentTool = "idu"
  /\ ~iduPlaced /\ ~oduPlaced /\ saveDisabled
  /\ Len(linePoints) = 3
  /\ CountKind("point") = 3 /\ CountKind("segment") = 2
  /\ \A o \in DOMAIN objects : o.kind = "segment" => ~o.dashed

====
